---- MODULE Spec2Model ----
(***************************************************************************)
(* Model of lab2.py: class CFG (removal of epsilon productions, unit       *)
(* productions and useless symbols) and class PDAtoCFG (conversion of a    *)
(* pushdown automaton to a grammar).                                       *)
(*                                                                         *)
(* A Python string is a sequence of one-character strings; the character   *)
(* 'ε' is written "eps".  A dict is a record [keys, rules]: keys is the    *)
(* insertion order of the keys, rules maps each key to its list.           *)
(***************************************************************************)
EXTENDS Integers, Sequences, FiniteSets, TLC

VARIABLES
    given,                  \* the dict the caller passed to CFG(...), as the caller sees it now
    input0,                 \* the contents of that dict when it was passed
    productions,            \* self.productions
    non_terminals,          \* self.non_terminals
    epsilon_non_terminals,  \* self.epsilon_non_terminals
    unit_productions,       \* self.unit_productions
    useful_symbols,         \* self.useful_symbols
    sameDict,               \* self.productions is the caller's dict object
    sharedLists,            \* keys k for which self.productions[k] is the caller's list object
    err,                    \* "none", or the exception that ended the last call
    hist,                   \* the methods called on this CFG object, in order
    returned,               \* the values transform returned on this object, in order
    gen,                    \* number of CFG objects built from an earlier transform's result
    prev,                   \* what transform returned on the previous object
    transitions,            \* PDAtoCFG.transitions, as a set of <<p, a, X, r, new_stack>>
    processed,              \* the (key, target) pairs convert's loops have gone through
    curKey,                 \* the key of transitions.items() the outer loop is at
    cfg_productions,        \* PDAtoCFG.cfg_productions
    pc                      \* position of convert: "start", "loop", "done"

cfgVars == <<given, input0, productions, non_terminals, epsilon_non_terminals,
             unit_productions, useful_symbols, sameDict, sharedLists, err,
             hist, returned, gen, prev>>
pdaVars == <<transitions, processed, curKey, cfg_productions, pc>>
vars == <<cfgVars, pdaVars>>

\* ---------------------------------------------------------------- bounds
MaxAlts == 2
MaxCalls == 2
MaxTrans == 2
MaxPush == 2

\* ---------------------------------------------------------------- strings
EPS == "eps"

\* The one-character strings for which str.islower() is True: the lower-case
\* letters, 'ε' among them; upper-case letters, digits and signs are not.
LowerChars ==
    {"a", "b", "c", "d", "e", "f", "g", "h", "i", "j", "k", "l", "m",
     "n", "o", "p", "q", "r", "s", "t", "u", "v", "w", "x", "y", "z", EPS}

islower(symbol) == symbol \in LowerChars

EmptyDict == [keys |-> <<>>, rules |-> <<>>]

Range(s) == {s[i] : i \in 1..Len(s)}

RemoveAt(s, i) == SubSeq(s, 1, i - 1) \o SubSeq(s, i + 1, Len(s))

RECURSIVE Flatten(_)
Flatten(ss) == IF ss = <<>> THEN <<>> ELSE Head(ss) \o Flatten(Tail(ss))

RECURSIVE ListRemove(_, _)
ListRemove(list, x) ==
    IF list = <<>> THEN <<>>
    ELSE IF Head(list) = x THEN Tail(list)
    ELSE <<Head(list)>> \o ListRemove(Tail(list), x)

DictFilter(d, keep) ==
    [keys |-> SelectSeq(d.keys, LAMBDA k : k \in keep),
     rules |-> [k \in Range(d.keys) \cap keep |-> d.rules[k]]]

\* ---------------------------------------------------------------- CFG
CFGInit(g) ==
    [given |-> g, productions |-> g, non_terminals |-> Range(g.keys),
     epsilon_non_terminals |-> {}, unit_productions |-> <<>>,
     useful_symbols |-> {}, sameDict |-> TRUE, sharedLists |-> Range(g.keys),
     err |-> "none"]

find_epsilon_productions(w) ==
    [w EXCEPT !.epsilon_non_terminals =
        @ \cup {nt \in Range(w.productions.keys) :
                  \E i \in 1..Len(w.productions.rules[nt]) :
                      w.productions.rules[nt][i] = <<EPS>>}]

RECURSIVE GenFrom(_, _, _)
GenFrom(rule, eps, i) ==
    IF i > Len(rule) THEN <<>>
    ELSE (IF rule[i] \in eps THEN <<RemoveAt(rule, i)>> ELSE <<>>)
         \o GenFrom(rule, eps, i + 1)

generate_new_rules(rule, eps) == GenFrom(rule, eps, 1)

NewRulesOf(rules, eps) ==
    SelectSeq(rules, LAMBDA rule : rule # <<EPS>>)
    \o Flatten([i \in 1..Len(rules) |->
                   IF \E j \in 1..Len(rules[i]) : rules[i][j] \in eps
                   THEN generate_new_rules(rules[i], eps)
                   ELSE <<>>])

remove_epsilon_productions(w) ==
    [w EXCEPT !.productions =
                 [keys |-> w.productions.keys,
                  rules |-> [nt \in Range(w.productions.keys) |->
                               NewRulesOf(w.productions.rules[nt],
                                          w.epsilon_non_terminals)]],
              !.sameDict = FALSE,
              !.sharedLists = {}]

remove_epsilon(w) == remove_epsilon_productions(find_epsilon_productions(w))

UnitsOf(nt, rules, nts) ==
    Flatten([i \in 1..Len(rules) |->
               IF Len(rules[i]) = 1 /\ rules[i][1] \in nts
               THEN << <<nt, rules[i][1]>> >>
               ELSE <<>>])

find_unit_productions(w) ==
    [w EXCEPT !.unit_productions =
        @ \o Flatten([i \in 1..Len(w.productions.keys) |->
                        UnitsOf(w.productions.keys[i],
                                w.productions.rules[w.productions.keys[i]],
                                w.non_terminals)])]

\* One round of the loop of substitute_unit_productions; a list shared with
\* the caller's dict is changed for the caller too.
SetList(w, nt, list) ==
    [w EXCEPT !.productions.rules[nt] = list,
              !.given.rules[nt] = IF nt \in w.sharedLists THEN list ELSE @]

SubstituteOne(w, u) ==
    LET nt == u[1]
        unit == u[2]
        P == w.productions
    IN  IF nt \notin Range(P.keys) THEN [w EXCEPT !.err = "KeyError"]
        ELSE IF <<unit>> \notin Range(P.rules[nt]) THEN [w EXCEPT !.err = "ValueError"]
        ELSE LET removed == ListRemove(P.rules[nt], <<unit>>)
             IN  IF unit \notin Range(P.keys)
                 THEN [SetList(w, nt, removed) EXCEPT !.err = "KeyError"]
                 ELSE SetList(w, nt,
                              removed \o (IF unit = nt THEN removed ELSE P.rules[unit]))

RECURSIVE SubstituteFrom(_, _)
SubstituteFrom(w, i) ==
    IF i > Len(w.unit_productions) \/ w.err # "none" THEN w
    ELSE SubstituteFrom(SubstituteOne(w, w.unit_productions[i]), i + 1)

substitute_unit_productions(w) == SubstituteFrom(w, 1)

remove_unit_productions(w) == substitute_unit_productions(find_unit_productions(w))

find_useful_symbols(w) ==
    [w EXCEPT !.useful_symbols =
        @ \cup {nt \in Range(w.productions.keys) :
                  \E i \in 1..Len(w.productions.rules[nt]) :
                     \A j \in 1..Len(w.productions.rules[nt][i]) :
                        \/ islower(w.productions.rules[nt][i][j])
                        \/ w.productions.rules[nt][i][j] \in w.non_terminals}]

DropUseless(w) ==
    [w EXCEPT !.productions = DictFilter(w.productions, w.useful_symbols),
              !.sameDict = FALSE,
              !.sharedLists = @ \cap w.useful_symbols]

remove_useless_symbols(w) == DropUseless(find_useful_symbols(w))

transform(w) ==
    LET w1 == remove_epsilon(w)
        w2 == remove_unit_productions(w1)
    IN  IF w2.err # "none" THEN w2 ELSE remove_useless_symbols(w2)

\* ---------------------------------------------------------------- callers of CFG
NonTerminalNames == <<"S", "A", "B">>

RulePool == << <<EPS>>, <<"a">>, <<"A">>, <<"B">>, <<"a", "A">>, <<"a", "A", "B">> >>

\* The lists of alternatives a caller passes: 1..MaxAlts rules of the pool.
AltLists ==
    {[i \in 1..Len(ix) |-> RulePool[ix[i]]] :
        ix \in {s \in UNION {[1..n -> 1..Len(RulePool)] : n \in 1..MaxAlts} :
                  \A i \in 1..Len(s) - 1 : s[i] < s[i + 1]}}

Grammars ==
    {[keys |-> NonTerminalNames, rules |-> r] :
        r \in [Range(NonTerminalNames) -> AltLists]}

World ==
    [given |-> given, productions |-> productions, non_terminals |-> non_terminals,
     epsilon_non_terminals |-> epsilon_non_terminals,
     unit_productions |-> unit_productions, useful_symbols |-> useful_symbols,
     sameDict |-> sameDict, sharedLists |-> sharedLists, err |-> err]

SetWorld(w) ==
    /\ given' = w.given
    /\ productions' = w.productions
    /\ non_terminals' = w.non_terminals
    /\ epsilon_non_terminals' = w.epsilon_non_terminals
    /\ unit_productions' = w.unit_productions
    /\ useful_symbols' = w.useful_symbols
    /\ sameDict' = w.sameDict
    /\ sharedLists' = w.sharedLists
    /\ err' = w.err

CanCall == err = "none" /\ gen + Len(hist) < MaxCalls

CallRemoveEpsilon ==
    /\ CanCall
    /\ SetWorld(remove_epsilon(World))
    /\ hist' = Append(hist, "remove_epsilon")
    /\ UNCHANGED <<input0, returned, gen, prev, pdaVars>>

CallRemoveUnitProductions ==
    /\ CanCall
    /\ SetWorld(remove_unit_productions(World))
    /\ hist' = Append(hist, "remove_unit_productions")
    /\ UNCHANGED <<input0, returned, gen, prev, pdaVars>>

CallRemoveUselessSymbols ==
    /\ CanCall
    /\ SetWorld(remove_useless_symbols(World))
    /\ hist' = Append(hist, "remove_useless_symbols")
    /\ UNCHANGED <<input0, returned, gen, prev, pdaVars>>

CallTransform ==
    /\ CanCall
    /\ LET w == transform(World)
       IN  /\ SetWorld(w)
           /\ returned' = IF w.err = "none" THEN Append(returned, w.productions)
                          ELSE returned
    /\ hist' = Append(hist, "transform")
    /\ UNCHANGED <<input0, gen, prev, pdaVars>>

\* The caller builds a fresh CFG from what transform returned.
NewCFG ==
    /\ err = "none"
    /\ gen = 0
    /\ hist = <<"transform">>
    /\ SetWorld(CFGInit(productions))
    /\ input0' = productions
    /\ prev' = returned[1]
    /\ hist' = <<>>
    /\ returned' = <<>>
    /\ gen' = 1
    /\ UNCHANGED pdaVars

NoPDA ==
    /\ transitions = {}
    /\ processed = {}
    /\ curKey = <<>>
    /\ cfg_productions = EmptyDict
    /\ pc = "start"

Init ==
    /\ \E g \in Grammars :
          /\ input0 = g
          /\ given = g
          /\ productions = g
          /\ non_terminals = CFGInit(g).non_terminals
    /\ epsilon_non_terminals = {}
    /\ unit_productions = <<>>
    /\ useful_symbols = {}
    /\ sameDict = TRUE
    /\ sharedLists = Range(NonTerminalNames)
    /\ err = "none"
    /\ hist = <<>>
    /\ returned = <<>>
    /\ gen = 0
    /\ prev = EmptyDict
    /\ NoPDA

Next ==
    \/ CallRemoveEpsilon
    \/ CallRemoveUnitProductions
    \/ CallRemoveUselessSymbols
    \/ CallTransform
    \/ NewCFG

Spec == Init /\ [][Next]_vars

\* ---------------------------------------------------------------- PDAtoCFG
PDAStates == {"p", "q"}

InputSymbols == {"a", EPS}

StackSymbols == {"X"}

\* The strings over the stack alphabet of length at most n.
RECURSIVE StackStrings(_)
StackStrings(n) ==
    IF n = 0 THEN {<<>>}
    ELSE StackStrings(n - 1)
         \cup {Append(w, Y) : w \in {v \in StackStrings(n - 1) : Len(v) = n - 1},
                              Y \in StackSymbols}

\* A transition <<p, a, X, r, new_stack>>: (r, new_stack) is in transitions[(p, a, X)].
AllTransitions ==
    PDAStates \X InputSymbols \X StackSymbols \X PDAStates \X StackStrings(MaxPush)

\* The sets of at most n of the transitions of S.
RECURSIVE TransitionSets(_, _)
TransitionSets(S, n) ==
    IF n = 0 THEN {{}}
    ELSE LET smaller == TransitionSets(S, n - 1)
         IN  smaller \cup {T \cup {t} : T \in smaller, t \in S}

KeyOf(t) == <<t[1], t[2], t[3]>>

add_production(d, lhs, rhs) ==
    IF lhs \in Range(d.keys)
    THEN [d EXCEPT !.rules[lhs] = Append(@, rhs)]
    ELSE [keys |-> Append(d.keys, lhs),
          rules |-> [k \in Range(d.keys) \cup {lhs} |->
                        IF k = lhs THEN <<rhs>> ELSE d.rules[k]]]

Lhs(t) == <<t[1]>> \o <<t[3]>> \o <<t[4]>>

RhsKeepsMarker(t, i) ==
    <<t[2]>>
    \o (IF i < Len(t[5]) THEN <<t[1]>> \o SubSeq(t[5], 1, i) \o <<t[4]>> ELSE <<>>)

Rhs(t, i) ==
    (IF t[2] # EPS THEN <<t[2]>> ELSE <<>>)
    \o (IF i < Len(t[5]) THEN <<t[1]>> \o SubSeq(t[5], 1, i) \o <<t[4]>> ELSE <<>>)

\* for i in range(len(new_stack) + 1): add_production(lhs, rhs)
RECURSIVE ConvertInner(_, _, _)
ConvertInner(d, t, i) ==
    IF i > Len(t[5]) THEN d
    ELSE ConvertInner(add_production(d, Lhs(t), Rhs(t, i)), t, i + 1)

ConvertCall ==
    /\ pc = "start"
    /\ pc' = "loop"
    /\ UNCHANGED <<transitions, processed, curKey, cfg_productions, cfgVars>>

\* One (next_state, new_stack) of one key; the targets of a key are gone
\* through before the next key is taken.
ConvertStep ==
    /\ pc = "loop"
    /\ \E t \in transitions \ processed :
          /\ (\E u \in transitions \ processed : KeyOf(u) = curKey) => KeyOf(t) = curKey
          /\ cfg_productions' = ConvertInner(cfg_productions, t, 0)
          /\ processed' = processed \cup {t}
          /\ curKey' = KeyOf(t)
    /\ UNCHANGED <<transitions, pc, cfgVars>>

ConvertReturn ==
    /\ pc = "loop"
    /\ processed = transitions
    /\ pc' = "done"
    /\ UNCHANGED <<transitions, processed, curKey, cfg_productions, cfgVars>>

NoCFG ==
    /\ input0 = EmptyDict
    /\ given = EmptyDict
    /\ productions = EmptyDict
    /\ non_terminals = {}
    /\ epsilon_non_terminals = {}
    /\ unit_productions = <<>>
    /\ useful_symbols = {}
    /\ sameDict = TRUE
    /\ sharedLists = {}
    /\ err = "none"
    /\ hist = <<>>
    /\ returned = <<>>
    /\ gen = 0
    /\ prev = EmptyDict

InitPDA ==
    /\ transitions \in TransitionSets(AllTransitions, MaxTrans)
    /\ processed = {}
    /\ curKey = <<>>
    /\ cfg_productions = EmptyDict
    /\ pc = "start"
    /\ NoCFG

NextPDA ==
    \/ ConvertCall
    \/ ConvertStep
    \/ ConvertReturn

SpecPDA == InitPDA /\ [][NextPDA]_vars

\* ---------------------------------------------------------------- notions the properties use
StartSymbol == Head(NonTerminalNames)

IsNonTerminal(symbol) == symbol \in Range(NonTerminalNames)

KeysOf(g) == Range(g.keys)

AltsOf(g, nt) == Range(g.rules[nt])

\* Least fixpoint: nt is nullable if it has the alternative 'ε' or an
\* alternative made only of nullable nonterminals.
RECURSIVE NullableFrom(_, _)
NullableFrom(g, N) ==
    LET more == N \cup {nt \in KeysOf(g) :
                           \E alt \in AltsOf(g, nt) :
                              \/ alt = <<EPS>>
                              \/ alt # <<>> /\ \A j \in 1..Len(alt) : alt[j] \in N}
    IN  IF more = N THEN N ELSE NullableFrom(g, more)

Nullable(g) == NullableFrom(g, {})

\* Least fixpoint: nt is generating if some alternative is made only of
\* terminals and generating nonterminals.
RECURSIVE GeneratingFrom(_, _)
GeneratingFrom(g, G) ==
    LET more == G \cup {nt \in KeysOf(g) :
                           \E alt \in AltsOf(g, nt) :
                              \A j \in 1..Len(alt) :
                                 IsNonTerminal(alt[j]) => alt[j] \in G}
    IN  IF more = G THEN G ELSE GeneratingFrom(g, more)

Generating(g) == GeneratingFrom(g, {})

RECURSIVE ReachableFrom(_, _)
ReachableFrom(g, R) ==
    LET more == R \cup {symbol \in Range(NonTerminalNames) :
                           \E nt \in R \cap KeysOf(g) :
                              \E alt \in AltsOf(g, nt) : symbol \in Range(alt)}
    IN  IF more = R THEN R ELSE ReachableFrom(g, more)

Reachable(g) == ReachableFrom(g, {StartSymbol})

\* alt with the positions of P deleted
RECURSIVE DeletePositions(_, _, _)
DeletePositions(alt, P, j) ==
    IF j > Len(alt) THEN <<>>
    ELSE (IF j \in P THEN <<>> ELSE <<alt[j]>>) \o DeletePositions(alt, P, j + 1)

\* Every alternative is the marker 'ε' alone or a non-empty string without it.
MarkerOnlyAlone(g) ==
    \A nt \in KeysOf(g) : \A alt \in AltsOf(g, nt) :
        alt = <<EPS>> \/ (alt # <<>> /\ EPS \notin Range(alt))

\* Invariant I1 of the data model: a nonterminal of a right-hand side is declared.
I1(g) ==
    \A nt \in KeysOf(g) : \A alt \in AltsOf(g, nt) :
        \A j \in 1..Len(alt) : IsNonTerminal(alt[j]) => alt[j] \in KeysOf(g)

SameProductionSets(g, h) ==
    /\ KeysOf(g) = KeysOf(h)
    /\ \A nt \in KeysOf(g) : AltsOf(g, nt) = AltsOf(h, nt)

\* ---------------------------------------------------------------- properties of CFG

\* C1: after remove_unit_productions, called on a newly built CFG, no
\* alternative of any nonterminal is a single nonterminal; for S -> A, A -> B,
\* B -> a (S declared first) S has the alternative a and not the alternative B.
C1_NoUnitAlternativeLeft ==
    hist = <<"remove_unit_productions">> /\ err = "none" =>
        /\ \A nt \in KeysOf(productions) : \A alt \in AltsOf(productions, nt) :
              ~(Len(alt) = 1 /\ IsNonTerminal(alt[1]))
        /\ (/\ input0.rules["S"] = << <<"A">> >>
            /\ input0.rules["A"] = << <<"B">> >>
            /\ input0.rules["B"] = << <<"a">> >>)
           => /\ <<"a">> \in AltsOf(productions, "S")
              /\ <<"B">> \notin AltsOf(productions, "S")

\* C2: after remove_epsilon on a grammar whose alternatives are 'ε' alone or
\* non-empty, no nonterminal but the start symbol has an alternative that is
\* 'ε' or the empty string.
C2_NoEmptyAlternativeLeft ==
    hist = <<"remove_epsilon">> /\ MarkerOnlyAlone(input0) =>
        \A nt \in KeysOf(productions) \ {StartSymbol} :
            /\ <<EPS>> \notin AltsOf(productions, nt)
            /\ <<>> \notin AltsOf(productions, nt)

\* C3: after remove_useless_symbols every nonterminal that is still a key of
\* productions is reachable from the start symbol and generating.
C3_RemainingAreUseful ==
    hist = <<"remove_useless_symbols">> =>
        \A nt \in KeysOf(productions) :
            /\ nt \in Generating(productions)
            /\ nt \in Reachable(productions)

\* C4: transform on a fresh CFG built from the result of transform gives the
\* same nonterminals and, for each, the same set of alternatives.
C4_TransformIdempotent ==
    gen = 1 /\ hist = <<"transform">> /\ err = "none" =>
        SameProductionSets(productions, prev)

\* C7: no stage changes the contents of the dict that was passed to CFG(...),
\* nor of the lists in it.
C7_CallerGrammarUnchanged ==
    hist # <<>> => given = input0

\* C8: remove_epsilon works with the least-fixpoint nullable set, and for every
\* alternative and every non-empty set of its positions that hold nullable
\* nonterminals, the alternative without those positions, if not empty, is
\* among the nonterminal's alternatives afterwards.
C8_AllNullableSubsetsDeleted ==
    hist = <<"remove_epsilon">> /\ MarkerOnlyAlone(input0) =>
        \A nt \in KeysOf(input0) : \A alt \in AltsOf(input0, nt) :
            \A P \in SUBSET {j \in 1..Len(alt) : alt[j] \in Nullable(input0)} :
                (P # {} /\ DeletePositions(alt, P, 1) # <<>>)
                    => /\ nt \in KeysOf(productions)
                       /\ DeletePositions(alt, P, 1) \in AltsOf(productions, nt)

\* C9: if I1 held on the grammar given, it holds on what transform returns:
\* every nonterminal in a right-hand side is a key of the result.
C9_TransformKeepsI1 ==
    hist = <<"transform">> /\ err = "none" /\ I1(input0) => I1(productions)

\* C10: a second transform on the same CFG object ends without raising and
\* returns the productions the first one returned.
C10_SecondTransformSame ==
    hist = <<"transform", "transform">> =>
        /\ err = "none"
        /\ Len(returned) = 2
        /\ returned[2] = returned[1]

\* ---------------------------------------------------------------- properties of PDAtoCFG
RECURSIVE TripleChain(_, _, _, _)
TripleChain(from, w, mids, q) ==
    IF w = <<>> THEN <<>>
    ELSE LET to == IF Len(w) = 1 THEN q ELSE Head(mids)
         IN  <<from, Head(w), to>> \o TripleChain(to, Tail(w), IF mids = <<>> THEN <<>> ELSE Tail(mids), q)

InputPart(a) == IF a = EPS THEN <<>> ELSE <<a>>

\* C5: once convert has returned, for every transition (p, a, X) -> (r, Y1..Yk),
\* k >= 1, every state q and every choice of intermediate states r1..r(k-1)
\* there is the production [p,X,q] -> a [r,Y1,r1] [r1,Y2,r2] .. [r(k-1),Yk,q].
C5_EveryLandingStateEmitted ==
    pc = "done" =>
        \A t \in transitions :
            Len(t[5]) >= 1 =>
                \A q \in PDAStates : \A mids \in [1..(Len(t[5]) - 1) -> PDAStates] :
                    /\ <<t[1], t[3], q>> \in KeysOf(cfg_productions)
                    /\ (InputPart(t[2]) \o TripleChain(t[4], t[5], mids, q))
                          \in AltsOf(cfg_productions, <<t[1], t[3], q>>)

\* d2 is d with the one production lhs -> rhs added after the others.
OnlyAdded(d, d2, lhs, rhs) ==
    /\ KeysOf(d2) = KeysOf(d) \cup {lhs}
    /\ \A k \in KeysOf(d) \ {lhs} : d2.rules[k] = d.rules[k]
    /\ d2.rules[lhs] = (IF lhs \in KeysOf(d) THEN d.rules[lhs] ELSE <<>>) \o <<rhs>>

\* C6: going through a transition (p, a, X) -> (r, empty string) adds exactly
\* one production, [p,X,r] -> a, with an empty right-hand side when a is 'ε',
\* and changes nothing else of cfg_productions.
C6_PopEmitsOneProduction ==
    [][\A t \in transitions :
          (t \notin processed /\ t \in processed' /\ t[5] = <<>>)
              => OnlyAdded(cfg_productions, cfg_productions',
                           <<t[1], t[3], t[4]>>, InputPart(t[2]))]_vars

\* convert has returned after going through a popping ε-move and a pushing
\* transition that gives productions for the same left-hand side.
C6_Witness ==
    /\ pc = "done"
    /\ \E t \in processed : \E u \in processed :
          /\ t # u
          /\ t[5] = <<>> /\ t[2] = EPS
          /\ u[5] # <<>>
          /\ <<u[1], u[3], u[4]>> = <<t[1], t[3], t[4]>>
          /\ Len(cfg_productions.rules[<<t[1], t[3], t[4]>>]) = Len(u[5]) + 2

====
